---- MODULE Spec2Model ----
(***************************************************************************)
(* NaijaSolarOps (src/app.py): a Streamlit script that sizes a solar       *)
(* installation.  Streamlit re-executes the whole script on every widget   *)
(* interaction, so every action below is one script run: it resolves the   *)
(* sun hours of the current city text, rebuilds user_items from the widget *)
(* values and, when the run was caused by the button, executes the         *)
(* calculation engine.                                                     *)
(*                                                                         *)
(* Python floats are modelled as exact rationals [n, d] in lowest terms    *)
(* (0.7 is 7/10, 4.4 is 22/5): sums, products, quotients, comparisons and  *)
(* math.ceil are computed step by step as the script computes them, on     *)
(* the exact values.  The one place where IEEE-754 rounding error can      *)
(* change a discrete output of the domain explored here is math.ceil of a  *)
(* quotient whose exact value is a positive integer k: the float may lie   *)
(* just above k (1400 Wh at 4.0 sun hours gives 1.0000000000000002), so    *)
(* math.ceil yields k or k + 1; both outcomes are kept (CeilOfFloat), so   *)
(* the sizing operators give the set of values the script can compute.     *)
(* Text is a sequence of one-character strings so that str.lower() and     *)
(* the substring test are computed.                                        *)
(***************************************************************************)
EXTENDS Integers, Sequences, FiniteSets, TLC

VARIABLES city_input, sun_hours, loc_msg, geo_queries, geo_reply, mode, qty, hrs, result

vars == <<city_input, sun_hours, loc_msg, geo_queries, geo_reply, mode, qty, hrs, result>>

-----------------------------------------------------------------------------
(* Exact rational arithmetic standing for Python float arithmetic.          *)

RECURSIVE GCD(_, _)
GCD(a, b) == IF b = 0 THEN a ELSE GCD(b, a % b)

Abs(x) == IF x < 0 THEN -x ELSE x

Rat(n, d) ==
    LET g == GCD(Abs(n), Abs(d))
        s == IF d < 0 THEN -1 ELSE 1
    IN  [n |-> (s * n) \div g, d |-> (s * d) \div g]

RInt(k) == [n |-> k, d |-> 1]

RAdd(a, b) == Rat(a.n * b.d + b.n * a.d, a.d * b.d)

\* a * b, cross-reduced before multiplying so that products stay small
RMul(a, b) ==
    LET g1 == GCD(Abs(a.n), b.d)
        g2 == GCD(Abs(b.n), a.d)
    IN  IF a.n = 0 \/ b.n = 0 THEN RInt(0)
        ELSE Rat((a.n \div g1) * (b.n \div g2), (a.d \div g2) * (b.d \div g1))

\* a / b for b # 0 (Python raises ZeroDivisionError for b = 0)
RDiv(a, b) == RMul(a, Rat(b.d, b.n))

RLt(a, b) == a.n * b.d < b.n * a.d

RLe(a, b) == a.n * b.d <= b.n * a.d

\* math.ceil
RCeil(a) == -((-a.n) \div a.d)

\* math.ceil applied to the float that stands for a: a quotient that is
\* exactly a positive integer k may have been rounded just above k
CeilOfFloat(a) == IF a.d = 1 /\ a.n > 0 THEN {a.n, a.n + 1} ELSE {RCeil(a)}

\* int(): truncation toward zero
RTrunc(a) == IF a.n >= 0 THEN a.n \div a.d ELSE -((-a.n) \div a.d)

-----------------------------------------------------------------------------
(* 1. Market data                                                           *)

PRICES ==
    [panel_500w |-> 145000, battery_220ah |-> 340000,
     inverter_3kva |-> 650000, inverter_5kva |-> 1100000,
     inverter_10kva |-> 2600000,
     install_base |-> 150000, install_heavy |-> 350000]

\* SOLAR_DATA in insertion order (a Python dict iterates in insertion order)
SOLAR_DATA ==
    << [key |-> <<"L","a","g","o","s">>,                 hours |-> Rat(44, 10)],
       [key |-> <<"A","b","u","j","a">>,                 hours |-> Rat(52, 10)],
       [key |-> <<"K","a","n","o">>,                     hours |-> Rat(58, 10)],
       [key |-> <<"I","b","a","d","a","n">>,             hours |-> Rat(46, 10)],
       [key |-> <<"P","o","r","t"," ","H","a","r","c","o","u","r","t">>,
                                                         hours |-> Rat(38, 10)],
       [key |-> <<"E","n","u","g","u">>,                 hours |-> Rat(45, 10)],
       [key |-> <<"S","o","k","o","t","o">>,             hours |-> Rat(60, 10)] >>

\* APPLIANCES flattened in iteration order: category by category, item by item
APPLIANCES ==
    << [name |-> "LED Bulb",               watts |-> 10,   surge |-> FALSE, cat |-> "Essentials"],
       [name |-> "Ceiling Fan (Ox)",       watts |-> 85,   surge |-> FALSE, cat |-> "Essentials"],
       [name |-> "Standing Fan",           watts |-> 55,   surge |-> FALSE, cat |-> "Essentials"],
       [name |-> "Phone/Tablet",           watts |-> 15,   surge |-> FALSE, cat |-> "Essentials"],
       [name |-> "Router/WiFi",            watts |-> 12,   surge |-> FALSE, cat |-> "Essentials"],
       [name |-> "Laptop (Mac/HP)",        watts |-> 65,   surge |-> FALSE, cat |-> "Work & Tech"],
       [name |-> "Starlink Kit",           watts |-> 75,   surge |-> FALSE, cat |-> "Work & Tech"],
       [name |-> "Monitor (24in)",         watts |-> 35,   surge |-> FALSE, cat |-> "Work & Tech"],
       [name |-> "Desktop PC",             watts |-> 250,  surge |-> FALSE, cat |-> "Work & Tech"],
       [name |-> "Small Fridge",           watts |-> 120,  surge |-> TRUE,  cat |-> "Kitchen & Cooling"],
       [name |-> "Medium Freezer",         watts |-> 250,  surge |-> TRUE,  cat |-> "Kitchen & Cooling"],
       [name |-> "Big Freezer (Chest)",    watts |-> 350,  surge |-> TRUE,  cat |-> "Kitchen & Cooling"],
       [name |-> "Inverter AC (1HP)",      watts |-> 900,  surge |-> TRUE,  cat |-> "Kitchen & Cooling"],
       [name |-> "Inverter AC (1.5HP)",    watts |-> 1400, surge |-> TRUE,  cat |-> "Kitchen & Cooling"],
       [name |-> "Pumping Machine (Sumo)", watts |-> 750,  surge |-> TRUE,  cat |-> "Heavy Duty"],
       [name |-> "Washing Machine",        watts |-> 500,  surge |-> TRUE,  cat |-> "Heavy Duty"],
       [name |-> "Electric Kettle",        watts |-> 1500, surge |-> FALSE, cat |-> "Heavy Duty"],
       [name |-> "Microwave",              watts |-> 1200, surge |-> FALSE, cat |-> "Heavy Duty"],
       [name |-> "Ironing (Steam)",        watts |-> 1500, surge |-> FALSE, cat |-> "Heavy Duty"] >>

ItemNames == {APPLIANCES[i].name : i \in 1..Len(APPLIANCES)}

MODES == {"Reliability (24/7)", "Smart Saver (Day Only)"}

-----------------------------------------------------------------------------
(* 2. get_sun_hours                                                         *)

UpperChars == <<"A","B","C","D","E","F","G","H","I","J","K","L","M",
                "N","O","P","Q","R","S","T","U","V","W","X","Y","Z">>
LowerChars == <<"a","b","c","d","e","f","g","h","i","j","k","l","m",
                "n","o","p","q","r","s","t","u","v","w","x","y","z">>

UpperSet == {UpperChars[i] : i \in 1..26}

LowerOf == [c \in UpperSet |-> LowerChars[CHOOSE i \in 1..26 : UpperChars[i] = c]]

\* str.lower() on one character
LowerChar(c) == IF c \in UpperSet THEN LowerOf[c] ELSE c

\* str.lower()
Lower(s) == [i \in 1..Len(s) |-> LowerChar(s[i])]

\* the Python test `a in b` on strings
Contains(b, a) ==
    \E i \in 0..(Len(b) - Len(a)) : SubSeq(b, i + 1, i + Len(a)) = a

\* key.lower() for every key of SOLAR_DATA
LoweredKeys == [i \in 1..Len(SOLAR_DATA) |-> Lower(SOLAR_DATA[i].key)]

\* FirstMatch with the last matching entry winning
FirstMatch_LastWins(city_name) ==
    LET lowered == Lower(city_name)
        hits    == {i \in 1..Len(SOLAR_DATA) : Contains(lowered, LoweredKeys[i])}
    IN  IF hits = {} THEN 0 ELSE CHOOSE i \in hits : \A j \in hits : i >= j

\* the loop of get_sun_hours: index of the first SOLAR_DATA entry whose lowered
\* key occurs in the lowered name, 0 when the loop ends without returning
FirstMatch(city_name) ==
    LET lowered == Lower(city_name)
        hits    == {i \in 1..Len(SOLAR_DATA) : Contains(lowered, LoweredKeys[i])}
    IN  IF hits = {} THEN 0 ELSE CHOOSE i \in hits : \A j \in hits : i <= j

\* the f-string "{city_name}, Nigeria"
GeoQuery(city_name) == city_name \o <<",", " ", "N", "i", "g", "e", "r", "i", "a">>

\* the latitude bands, lat in hundredths of a degree
BandHours(lat) ==
    IF lat > 1100 THEN Rat(58, 10)
    ELSE IF lat > 900 THEN Rat(52, 10)
    ELSE IF lat > 700 THEN Rat(46, 10)
    ELSE Rat(40, 10)

\* get_sun_hours without the try/except around the geocoder call
get_sun_hours_NoExcept(city_name, geo) ==
    LET m == FirstMatch(city_name)
    IN  IF m # 0
            THEN [outcome |-> "return",
                  hours   |-> SOLAR_DATA[m].hours,
                  msg     |-> [text |-> "Using historical data for", key |-> SOLAR_DATA[m].key],
                  queries |-> <<>>]
        ELSE IF geo.kind = "location"
            THEN [outcome |-> "return",
                  hours   |-> BandHours(geo.lat),
                  msg     |-> [text |-> "Detected Lat", lat |-> geo.lat, est |-> BandHours(geo.lat)],
                  queries |-> <<GeoQuery(city_name)>>]
        ELSE IF geo.kind = "raise"
            THEN [outcome |-> "raise", queries |-> <<GeoQuery(city_name)>>]
        ELSE [outcome |-> "return",
              hours   |-> Rat(46, 10),
              msg     |-> [text |-> "Using Nigeria Average (4.6h)"],
              queries |-> <<GeoQuery(city_name)>>]

\* geo is what geolocator.geocode does if it is called:
\*   [kind |-> "location", lat |-> l], [kind |-> "none"] or [kind |-> "raise"].
\* The value has outcome "return" with the returned pair and the queries that
\* were sent, or outcome "raise" when an exception leaves the function.
get_sun_hours(city_name, geo) ==
    LET m == FirstMatch(city_name)
    IN  IF m # 0
            THEN [outcome |-> "return",
                  hours   |-> SOLAR_DATA[m].hours,
                  msg     |-> [text |-> "Using historical data for", key |-> SOLAR_DATA[m].key],
                  queries |-> <<>>]
        ELSE IF geo.kind = "location"
            THEN [outcome |-> "return",
                  hours   |-> BandHours(geo.lat),
                  msg     |-> [text |-> "Detected Lat", lat |-> geo.lat, est |-> BandHours(geo.lat)],
                  queries |-> <<GeoQuery(city_name)>>]
        ELSE \* `if location:` is false, or `except: pass`
             [outcome |-> "return",
              hours   |-> Rat(46, 10),
              msg     |-> [text |-> "Using Nigeria Average (4.6h)"],
              queries |-> <<GeoQuery(city_name)>>]

-----------------------------------------------------------------------------
(* 4. Appliance inputs                                                      *)

\* def_hr, in tenths of an hour: 0.5 for items above 1000 W, else 6.0
DefaultHrs(item) == IF item.watts > 1000 THEN 5 ELSE 60

\* user_items: the catalogue items whose quantity widget is above 0, in
\* catalogue order, each extended with qty, hours and cat
RECURSIVE CollectItems(_, _, _)
CollectItems(i, q, h) ==
    IF i > Len(APPLIANCES) THEN <<>>
    ELSE LET item == APPLIANCES[i]
             rest == CollectItems(i + 1, q, h)
         IN  IF q[item.name] > 0
                 THEN << [name |-> item.name, watts |-> item.watts,
                          surge |-> item.surge, cat |-> item.cat,
                          qty |-> q[item.name],
                          hours |-> Rat(h[item.name], 10)] >> \o rest
                 ELSE rest

UserItems(q, h) == CollectItems(1, q, h)

-----------------------------------------------------------------------------
(* 5. Calculation engine                                                    *)

\* mode.startswith("Smart")
StartsWithSmart(m) == m = "Smart Saver (Day Only)"

DailyUse(item) == RMul(RInt(item.watts * item.qty), item.hours)

\* NightContribution adding the whole daily use instead of 60 % of it
NightContribution_NoFactor(item, m) ==
    LET is_heavy == item.cat \in {"Heavy Duty", "Kitchen & Cooling"}
    IN  IF StartsWithSmart(m) /\ is_heavy
            THEN RInt(0)
            ELSE DailyUse(item)

\* NightContribution with "Kitchen & Cooling" missing from the heavy list
NightContribution_KitchenCounted(item, m) ==
    LET is_heavy == item.cat \in {"Heavy Duty"}
    IN  IF StartsWithSmart(m) /\ is_heavy
            THEN RInt(0)
            ELSE RMul(DailyUse(item), Rat(6, 10))

\* what one item adds to night_load_wh
NightContribution(item, m) ==
    LET is_heavy == item.cat \in {"Heavy Duty", "Kitchen & Cooling"}
    IN  IF StartsWithSmart(m) /\ is_heavy
            THEN RInt(0)
            ELSE RMul(DailyUse(item), Rat(6, 10))

\* A. the load-analysis loop over user_items
RECURSIVE LoadAnalysis(_, _, _)
LoadAnalysis(items, m, acc) ==
    IF items = <<>> THEN acc
    ELSE LET item == Head(items)
             daily_use == DailyUse(item)
         IN  LoadAnalysis(Tail(items), m,
                [total_daily_wh  |-> RAdd(acc.total_daily_wh, daily_use),
                 peak_load_watts |-> acc.peak_load_watts + item.watts * item.qty,
                 heavy_consumers |->
                     IF RLt(RInt(1000), daily_use)
                         THEN Append(acc.heavy_consumers,
                                     [name |-> item.name,
                                      kwh  |-> RDiv(daily_use, RInt(1000))])
                         ELSE acc.heavy_consumers,
                 night_load_wh   |-> RAdd(acc.night_load_wh, NightContribution(item, m))])

EmptyLoad ==
    [total_daily_wh |-> RInt(0), peak_load_watts |-> 0,
     heavy_consumers |-> <<>>, night_load_wh |-> RInt(0)]

\* NumPanels multiplying by the sun hours instead of dividing by them
NumPanels_TimesSun(total_daily_wh, sun) ==
    LET req_panel_kw == RDiv(RMul(RDiv(total_daily_wh, Rat(7, 10)), sun), RInt(1000))
    IN  CeilOfFloat(RDiv(RMul(req_panel_kw, RInt(1000)), RInt(500)))

\* NumPanels rounding down (int() in place of math.ceil)
NumPanels_Floor(total_daily_wh, sun) ==
    LET req_panel_kw == RDiv(RDiv(total_daily_wh, Rat(7, 10)), RMul(sun, RInt(1000)))
    IN  {RTrunc(RDiv(RMul(req_panel_kw, RInt(1000)), RInt(500)))}

\* B. panels
NumPanels(total_daily_wh, sun) ==
    LET req_panel_kw == RDiv(RDiv(total_daily_wh, Rat(7, 10)), RMul(sun, RInt(1000)))
    IN  CeilOfFloat(RDiv(RMul(req_panel_kw, RInt(1000)), RInt(500)))

\* InverterTier with inclusive thresholds (<= in place of <)
InverterTier_Inclusive(peak_load_watts) ==
    LET req_inv_watts == RMul(RInt(peak_load_watts), Rat(125, 100))
    IN  IF RLe(req_inv_watts, RInt(3000))
            THEN [inv_name |-> "3kVA (24V)", inv_price |-> PRICES.inverter_3kva, sys_v |-> 24]
        ELSE IF RLe(req_inv_watts, RInt(5000))
            THEN [inv_name |-> "5kVA (48V)", inv_price |-> PRICES.inverter_5kva, sys_v |-> 48]
        ELSE [inv_name |-> "10kVA (48V)", inv_price |-> PRICES.inverter_10kva, sys_v |-> 48]

\* B. inverter
InverterTier(peak_load_watts) ==
    LET req_inv_watts == RMul(RInt(peak_load_watts), Rat(125, 100))
    IN  IF RLt(req_inv_watts, RInt(3000))
            THEN [inv_name |-> "3kVA (24V)", inv_price |-> PRICES.inverter_3kva, sys_v |-> 24]
        ELSE IF RLt(req_inv_watts, RInt(5000))
            THEN [inv_name |-> "5kVA (48V)", inv_price |-> PRICES.inverter_5kva, sys_v |-> 48]
        ELSE [inv_name |-> "10kVA (48V)", inv_price |-> PRICES.inverter_10kva, sys_v |-> 48]

\* NumBatteries without the final floor of one series string
NumBatteries_NoFloor(night_load_wh, sys_v) ==
    LET batt_wh_needed   == RDiv(night_load_wh, Rat(5, 10))
        total_batt_ah    == RDiv(batt_wh_needed, RInt(sys_v))
        series_string    == RDiv(RInt(sys_v), RInt(12))
    IN  { RTrunc(RMul(series_string, RInt(parallel_strings))) :
              parallel_strings \in CeilOfFloat(RDiv(total_batt_ah, RInt(220))) }

\* B. batteries
NumBatteries(night_load_wh, sys_v) ==
    LET batt_wh_needed   == RDiv(night_load_wh, Rat(5, 10))
        total_batt_ah    == RDiv(batt_wh_needed, RInt(sys_v))
        series_string    == RDiv(RInt(sys_v), RInt(12))
    IN  { LET num_batteries == RTrunc(RMul(series_string, RInt(parallel_strings)))
          IN  IF RLt(RInt(num_batteries), series_string)
                  THEN RTrunc(series_string)
                  ELSE num_batteries :
              parallel_strings \in CeilOfFloat(RDiv(total_batt_ah, RInt(220))) }

\* Financials with the installation left out of the total
Financials_NoInstall(num_panels, num_batteries, inv_price, sys_v) ==
    LET cost_panels  == num_panels * PRICES.panel_500w
        cost_batts   == num_batteries * PRICES.battery_220ah
        cost_install == IF sys_v > 24 THEN PRICES.install_heavy ELSE PRICES.install_base
    IN  [cost_panels |-> cost_panels, cost_batts |-> cost_batts,
         cost_install |-> cost_install,
         total_cost |-> cost_panels + cost_batts + inv_price]

\* C. financials
Financials(num_panels, num_batteries, inv_price, sys_v) ==
    LET cost_panels  == num_panels * PRICES.panel_500w
        cost_batts   == num_batteries * PRICES.battery_220ah
        cost_install == IF sys_v > 24 THEN PRICES.install_heavy ELSE PRICES.install_base
    IN  [cost_panels |-> cost_panels, cost_batts |-> cost_batts,
         cost_install |-> cost_install,
         total_cost |-> cost_panels + cost_batts + inv_price + cost_install]

\* 7. estimated generation
GenWh(num_panels, sun) ==
    RMul(RMul(RMul(RInt(num_panels), RInt(500)), sun), Rat(75, 100))

\* 8. the rows of the CSV quote
CsvData(num_panels, num_batteries, inv, fin) ==
    << [item |-> "Panels", qty |-> num_panels,
        unit |-> PRICES.panel_500w, total |-> fin.cost_panels],
       [item |-> "Batteries", qty |-> num_batteries,
        unit |-> PRICES.battery_220ah, total |-> fin.cost_batts],
       [item |-> <<"Inverter", inv.inv_name>>, qty |-> 1,
        unit |-> inv.inv_price, total |-> inv.inv_price],
       [item |-> "Installation", qty |-> 1,
        unit |-> fin.cost_install, total |-> fin.cost_install],
       [item |-> "TOTAL", qty |-> "", unit |-> "-", total |-> fin.total_cost] >>

NoResult == [status |-> "none"]

\* a name the aborted script never bound
Unassigned == [unassigned |-> TRUE]

\* sections 5.C to 8 for one outcome of the sizing
Plan(load, inv, num_panels, num_batteries, m, sun) ==
    LET fin    == Financials(num_panels, num_batteries, inv.inv_price, inv.sys_v)
        gen_wh == GenWh(num_panels, sun)
    IN  [status          |-> "done",
         total_daily_wh  |-> load.total_daily_wh,
         peak_load_watts |-> load.peak_load_watts,
         night_load_wh   |-> load.night_load_wh,
         heavy_consumers |-> load.heavy_consumers,
         num_panels      |-> num_panels,
         inv_name        |-> inv.inv_name,
         inv_price       |-> inv.inv_price,
         sys_v           |-> inv.sys_v,
         num_batteries   |-> num_batteries,
         cost_panels     |-> fin.cost_panels,
         cost_batts      |-> fin.cost_batts,
         cost_install    |-> fin.cost_install,
         total_cost      |-> fin.total_cost,
         gen_wh          |-> gen_wh,
         warning         |-> RLt(gen_wh, load.total_daily_wh),
         tip             |-> ~StartsWithSmart(m),
         csv_data        |-> CsvData(num_panels, num_batteries, inv, fin)]

\* the else-branch of the validation gate: sections 5.A to 8
Analysis(items, m, sun) ==
    UNION { UNION { { Plan(load, inv, num_panels, num_batteries, m, sun) :
                          num_panels    \in NumPanels(load.total_daily_wh, sun),
                          num_batteries \in NumBatteries(load.night_load_wh, inv.sys_v) } :
                    inv \in {InverterTier(load.peak_load_watts)} } :
            load \in {LoadAnalysis(items, m, EmptyLoad)} }

\* Engine without the `if not user_items` gate
Engine_NoGate(clicked, items, m, sun) ==
    IF ~clicked THEN {NoResult} ELSE Analysis(items, m, sun)

\* `if st.button(...)`: what a script run can leave on the page below the inputs
Engine(clicked, items, m, sun) ==
    IF ~clicked THEN {NoResult}
    ELSE IF items = <<>>
        THEN {[status |-> "error", message |-> "Please select at least one appliance."]}
    ELSE Analysis(items, m, sun)

-----------------------------------------------------------------------------
(* The inputs explored                                                      *)

CityChoices ==
    { <<"I","b","a","d","a","n">>,
      <<"i","b","a","d","a","n"," ","l","a","g","o","s">>,
      <<"P","O","R","T"," ","H","A","R","C","O","U","R","T">>,
      <<"J","o","s">>,
      <<>> }

\* latitudes the geocoder may answer, in hundredths of a degree
LatChoices == {-3390, 900, 1100, 1250}

GeoReplies ==
    {[kind |-> "location", lat |-> l] : l \in LatChoices}
        \cup {[kind |-> "none"], [kind |-> "raise"]}

NotCalled == [kind |-> "not called"]

\* the geocoder answers only when get_sun_hours reaches the call
RepliesFor(city_name) ==
    IF FirstMatch(city_name) # 0 THEN {NotCalled} ELSE GeoReplies

TouchItems == {"LED Bulb", "Desktop PC", "Inverter AC (1.5HP)", "Microwave"}

\* number_input("Qty", 0, 10, 0)
QtyMin == 0
QtyMax == 10
QtyChoices == {0, 1, 2, 3}

\* number_input("Hrs/Day", 0.0, 24.0, def_hr), in tenths of an hour
HrsMin == 0
HrsMax == 240
HrsChoices == {0, 60}

\* at most this many widgets (city, mode, each Qty, each Hrs/Day) are off
\* their default value at once
MaxEdits == 3

DefaultCity == <<"I","b","a","d","a","n">>

DefaultMode == "Reliability (24/7)"

DefaultQty == [n \in ItemNames |-> 0]

DefaultHrsOf ==
    [n \in ItemNames |->
        DefaultHrs(APPLIANCES[CHOOSE i \in 1..Len(APPLIANCES) : APPLIANCES[i].name = n])]

Edits(c, m, q, h) ==
    (IF c # DefaultCity THEN 1 ELSE 0) + (IF m # DefaultMode THEN 1 ELSE 0)
        + Cardinality({n \in ItemNames : q[n] # DefaultQty[n]})
        + Cardinality({n \in ItemNames : h[n] # DefaultHrsOf[n]})

-----------------------------------------------------------------------------
(* 3.-8. One execution of the script                                        *)

\* the state the script leaves, given the widget values it reads, whether the
\* button caused the run, and what the geocoder does if called
ScriptRun(city, m, q, h, clicked, geo) ==
    \E r \in {get_sun_hours(city, geo)} :
        /\ city_input' = city
        /\ mode' = m
        /\ qty' = q
        /\ hrs' = h
        /\ geo_reply' = geo
        /\ IF r.outcome = "raise"
               \* an exception leaving get_sun_hours ends the run at line 79
               THEN /\ sun_hours' = Unassigned
                    /\ loc_msg' = Unassigned
                    /\ geo_queries' = r.queries
                    /\ result' = [status |-> "exception"]
               ELSE /\ sun_hours' = r.hours
                    /\ loc_msg' = r.msg
                    /\ geo_queries' = r.queries
                    /\ result' \in Engine(clicked, UserItems(q, h), m, r.hours)

Init ==
    /\ city_input = DefaultCity
    /\ mode = DefaultMode
    /\ qty = DefaultQty
    /\ hrs = DefaultHrsOf
    /\ geo_reply = NotCalled
    /\ sun_hours = Rat(46, 10)
    /\ loc_msg = [text |-> "Using historical data for", key |-> <<"I","b","a","d","a","n">>]
    /\ geo_queries = <<>>
    /\ result = NoResult

EditCity ==
    \E c \in CityChoices \ {city_input} :
        /\ Edits(c, mode, qty, hrs) <= MaxEdits
        /\ \E geo \in RepliesFor(c) : ScriptRun(c, mode, qty, hrs, FALSE, geo)

SelectMode ==
    \E m \in MODES \ {mode} :
        /\ Edits(city_input, m, qty, hrs) <= MaxEdits
        /\ \E geo \in RepliesFor(city_input) :
               ScriptRun(city_input, m, qty, hrs, FALSE, geo)

SetQty ==
    \E n \in TouchItems : \E v \in QtyChoices \ {qty[n]} :
        /\ v >= QtyMin /\ v <= QtyMax
        /\ Edits(city_input, mode, [qty EXCEPT ![n] = v], hrs) <= MaxEdits
        /\ \E geo \in RepliesFor(city_input) :
               ScriptRun(city_input, mode, [qty EXCEPT ![n] = v], hrs, FALSE, geo)

SetHrs ==
    \E n \in TouchItems : \E v \in HrsChoices \ {hrs[n]} :
        /\ v >= HrsMin /\ v <= HrsMax
        /\ Edits(city_input, mode, qty, [hrs EXCEPT ![n] = v]) <= MaxEdits
        /\ \E geo \in RepliesFor(city_input) :
               ScriptRun(city_input, mode, qty, [hrs EXCEPT ![n] = v], FALSE, geo)

ClickRun ==
    \E geo \in RepliesFor(city_input) :
        ScriptRun(city_input, mode, qty, hrs, TRUE, geo)

Next == EditCity \/ SelectMode \/ SetQty \/ SetHrs \/ ClickRun

Spec == Init /\ [][Next]_vars

TypeOK ==
    /\ mode \in MODES
    /\ \A n \in ItemNames : qty[n] \in QtyMin..QtyMax /\ hrs[n] \in HrsMin..HrsMax
    /\ result.status \in {"none", "error", "done", "exception"}

-----------------------------------------------------------------------------
(* Reference quantities, computed from the widget values and the tables     *)
(* without the engine's loop                                                *)

\* sum over the catalogue items of the categories cats of watts x qty x hours,
\* in tenths of a Wh (hours are kept in tenths)
RECURSIVE EnergyTenths(_, _)
EnergyTenths(i, cats) ==
    IF i > Len(APPLIANCES) THEN 0
    ELSE (IF APPLIANCES[i].cat \in cats
              THEN APPLIANCES[i].watts * qty[APPLIANCES[i].name] * hrs[APPLIANCES[i].name]
              ELSE 0)
         + EnergyTenths(i + 1, cats)

AllCats == {"Essentials", "Work & Tech", "Kitchen & Cooling", "Heavy Duty"}

HeavyCats == {"Kitchen & Cooling", "Heavy Duty"}

\* sum over the catalogue items of watts x qty
RECURSIVE PeakWatts(_)
PeakWatts(i) ==
    IF i > Len(APPLIANCES) THEN 0
    ELSE APPLIANCES[i].watts * qty[APPLIANCES[i].name] + PeakWatts(i + 1)

NoneSelected == \A n \in ItemNames : qty[n] = 0

\* the table entries whose key occurs in the name, both lowered
TableHits(name) ==
    {i \in 1..Len(SOLAR_DATA) : Contains(Lower(name), Lower(SOLAR_DATA[i].key))}

\* every sun-hours value get_sun_hours can return
ResolvableSunHours ==
    {SOLAR_DATA[i].hours : i \in 1..Len(SOLAR_DATA)}
        \cup {Rat(58, 10), Rat(52, 10), Rat(46, 10), Rat(40, 10)}

PlanFields ==
    {"total_daily_wh", "peak_load_watts", "night_load_wh", "num_panels", "inv_name",
     "sys_v", "num_batteries", "total_cost", "warning", "csv_data"}

Done == result.status = "done"

IbadanLagos == <<"i","b","a","d","a","n"," ","l","a","g","o","s">>

-----------------------------------------------------------------------------
(* Claims                                                                   *)

\* C1: get_sun_hours is total. After every script run, whatever the location
\* name and whatever the geocoder did (a location, no location, an exception),
\* no exception has left the resolver and the sun hours are strictly positive;
\* when the name matches no table entry and the geocoder returned no location
\* or raised, the result is exactly 4.6 h with the Nigeria Average note.
C1_ResolverTotal ==
    /\ result.status # "exception"
    /\ sun_hours # Unassigned
    /\ sun_hours.n > 0 /\ sun_hours.d > 0
    /\ (TableHits(city_input) = {} /\ geo_reply.kind \in {"none", "raise"})
           => /\ sun_hours = Rat(46, 10)
              /\ loc_msg = [text |-> "Using Nigeria Average (4.6h)"]

\* the empty name, the geocoder raised, and the analysis still ran to its end
C1_Witness ==
    /\ city_input = <<>>
    /\ geo_reply.kind = "raise"
    /\ sun_hours = Rat(46, 10)
    /\ Done

\* C2: a button run with every quantity 0 reports the validation error and
\* produces no load summary, plan, cost, warning or CSV; a button run with at
\* least one quantity above 0 produces the full plan and cost, also when every
\* selected item has 0 hours.
C2_ValidationGate ==
    result.status # "none" =>
        /\ NoneSelected =>
               /\ result.status = "error"
               /\ DOMAIN result = {"status", "message"}
        /\ ~NoneSelected =>
               /\ result.status = "done"
               /\ PlanFields \subseteq DOMAIN result
               /\ Len(result.csv_data) = 5

\* the button was pressed with nothing selected
C2_Witness == NoneSelected /\ result.status = "error"

\* C3: in every completed analysis the total is the sum of watts x qty x hours
\* over the selected items, the night energy is at most 0.6 x that total, and
\* in Reliability mode it is exactly 0.6 x the total.
C3_NightAtMostSixtyPercent ==
    Done =>
        LET total == Rat(EnergyTenths(1, AllCats), 10)
        IN  /\ result.total_daily_wh = total
            /\ RLe(result.night_load_wh, RMul(Rat(6, 10), total))
            /\ ~StartsWithSmart(mode) => result.night_load_wh = RMul(Rat(6, 10), total)

\* Smart Saver with a heavy and a light item both drawing energy
C3_Witness ==
    /\ Done
    /\ StartsWithSmart(mode)
    /\ EnergyTenths(1, HeavyCats) > 0
    /\ EnergyTenths(1, AllCats \ HeavyCats) > 0
    /\ RLt(result.night_load_wh, RMul(Rat(6, 10), result.total_daily_wh))

\* C4: for the selection of a completed analysis, the night energy of Smart
\* Saver mode is at most that of Reliability mode, the difference is exactly
\* 0.6 x the daily energy of the selected Kitchen & Cooling and Heavy Duty
\* items, and items of the other two categories add the same in both modes.
C4_SmartSaverNightNotAbove ==
    Done =>
        LET items == UserItems(qty, hrs)
            other == IF StartsWithSmart(mode) THEN "Reliability (24/7)"
                                              ELSE "Smart Saver (Day Only)"
            otherNight == LoadAnalysis(items, other, EmptyLoad).night_load_wh
            smart == IF StartsWithSmart(mode) THEN result.night_load_wh ELSE otherNight
            rely  == IF StartsWithSmart(mode) THEN otherNight ELSE result.night_load_wh
            heavy == Rat(EnergyTenths(1, HeavyCats), 10)
        IN  /\ RLe(smart, rely)
            /\ rely = RAdd(smart, RMul(Rat(6, 10), heavy))
            /\ \A k \in 1..Len(items) :
                   items[k].cat \in (AllCats \ HeavyCats) =>
                       /\ NightContribution(items[k], "Smart Saver (Day Only)")
                              = NightContribution(items[k], "Reliability (24/7)")
                       /\ NightContribution(items[k], mode)
                              = RMul(Rat(6, 10), DailyUse(items[k]))

\* a Smart Saver analysis of a Kitchen & Cooling item that draws energy
C4_Witness ==
    /\ Done
    /\ StartsWithSmart(mode)
    /\ EnergyTenths(1, {"Kitchen & Cooling"}) > 0
    /\ result.night_load_wh = RMul(Rat(6, 10), Rat(EnergyTenths(1, AllCats \ HeavyCats), 10))

\* C5: the inverter follows peak x 1.25 by strict thresholds, peak being the
\* sum of watts x qty over the selected items: below 3000 gives 3kVA at 24 V,
\* from 3000 to below 5000 gives 5kVA at 48 V, 5000 and more gives 10kVA at
\* 48 V; a peak of 1400 W gives 3kVA/24 V and a peak of 4200 W 10kVA/48 V.
C5_InverterTiers ==
    Done =>
        LET peak == PeakWatts(1)
            req4 == peak * 5    \* 4 x (peak x 1.25)
        IN  /\ result.peak_load_watts = peak
            /\ result.sys_v \in {24, 48}
            /\ req4 < 12000 => result.inv_name = "3kVA (24V)" /\ result.sys_v = 24
            /\ (req4 >= 12000 /\ req4 < 20000)
                   => result.inv_name = "5kVA (48V)" /\ result.sys_v = 48
            /\ req4 >= 20000 => result.inv_name = "10kVA (48V)" /\ result.sys_v = 48
            /\ peak = 1400 => result.inv_name = "3kVA (24V)" /\ result.sys_v = 24
            /\ peak = 4200 => result.inv_name = "10kVA (48V)" /\ result.sys_v = 48

\* Scenario C: a peak of 4200 W
C5_Witness == Done /\ result.peak_load_watts = 4200 /\ result.inv_name = "10kVA (48V)"

\* C6: the panel count of a completed analysis is
\* ceiling(total / (0.7 x sun x 500)), or one more when that quotient is a
\* positive whole number and the float was rounded above it; with the sun
\* hours fixed it does not decrease when the total grows by the daily energy
\* of one more appliance, and with the total fixed it does not increase for
\* any larger resolvable sun-hours value nor decrease for any smaller one.
C6_PanelCountMonotone ==
    Done =>
        LET total == result.total_daily_wh
            p     == result.num_panels
            exact == RDiv(total, RMul(RMul(Rat(7, 10), sun_hours), RInt(500)))
        IN  /\ p >= RCeil(exact) /\ p <= RCeil(exact) + 1
            /\ p # RCeil(exact) => (exact.d = 1 /\ exact.n > 0)
            /\ \A s \in ResolvableSunHours :
                   /\ RLt(sun_hours, s) => \A p2 \in NumPanels(total, s) : p2 <= p
                   /\ RLt(s, sun_hours) => \A p2 \in NumPanels(total, s) : p2 >= p
            /\ \A n \in TouchItems : \A q \in QtyChoices : \A h \in HrsChoices :
                   LET w == APPLIANCES[CHOOSE i \in 1..Len(APPLIANCES) :
                                           APPLIANCES[i].name = n].watts
                   IN  w * q * h > 0 =>
                           \A p2 \in NumPanels(RAdd(total, Rat(w * q * h, 10)), sun_hours) :
                               p2 >= p

\* an analysis needing several panels, under sun hours that came from the
\* geocoder's latitude
C6_Witness ==
    /\ Done
    /\ result.num_panels >= 3
    /\ geo_reply.kind = "location"
    /\ sun_hours = Rat(40, 10)

\* C7: in every completed analysis the battery count is at least the series
\* count (system voltage / 12: 2 at 24 V, 4 at 48 V) and a whole multiple of
\* it; when the night energy is 0 it is exactly one series string.
C7_BatteryFloor ==
    Done =>
        LET series == result.sys_v \div 12
        IN  /\ result.sys_v = 12 * series
            /\ (result.sys_v = 24 => series = 2) /\ (result.sys_v = 48 => series = 4)
            /\ result.num_batteries >= series
            /\ result.num_batteries % series = 0
            /\ result.night_load_wh = RInt(0) => result.num_batteries = series

\* Smart Saver with only heavy items drawing energy: no night load
C7_Witness ==
    /\ Done
    /\ StartsWithSmart(mode)
    /\ RLt(RInt(0), result.total_daily_wh)
    /\ result.night_load_wh = RInt(0)
    /\ result.num_batteries = result.sys_v \div 12

\* C8: in every completed analysis the total cost is panels x panel price +
\* batteries x battery price + the price of the chosen inverter class + the
\* installation, which is the heavy tier exactly when the system voltage is
\* above 24 (5kVA and 10kVA) and the base tier otherwise; the Panels,
\* Batteries, Inverter and Installation totals of the CSV add up to the value
\* of its TOTAL row.
C8_TotalCost ==
    Done =>
        LET inverter == CASE result.inv_name = "3kVA (24V)"  -> PRICES.inverter_3kva
                          [] result.inv_name = "5kVA (48V)"  -> PRICES.inverter_5kva
                          [] result.inv_name = "10kVA (48V)" -> PRICES.inverter_10kva
            heavy    == result.inv_name \in {"5kVA (48V)", "10kVA (48V)"}
            install  == IF heavy THEN PRICES.install_heavy ELSE PRICES.install_base
            csv      == result.csv_data
        IN  /\ heavy <=> result.sys_v > 24
            /\ result.cost_install = install
            /\ result.total_cost =
                   result.num_panels * PRICES.panel_500w
                       + result.num_batteries * PRICES.battery_220ah
                       + inverter + install
            /\ csv[1].item = "Panels" /\ csv[2].item = "Batteries"
            /\ csv[3].item = <<"Inverter", result.inv_name>>
            /\ csv[4].item = "Installation" /\ csv[5].item = "TOTAL"
            /\ csv[1].total + csv[2].total + csv[3].total + csv[4].total = csv[5].total
            /\ csv[5].total = result.total_cost

\* a 48 V plan with panels and more than one battery string
C8_Witness ==
    /\ Done
    /\ result.sys_v = 48
    /\ result.num_panels >= 1
    /\ result.num_batteries > 4

\* C9: the name is matched against the table case-insensitively by substring
\* and the first matching entry in table order wins: after every script run
\* with a matching name, the sun hours are that entry's, the note names its
\* key, and no query went to the geocoder; a query (for "<name>, Nigeria") is
\* sent exactly when no entry matches.  A name holding both "lagos" and
\* "ibadan" resolves to Lagos' 4.4 h.
C9_FirstTableMatchWins ==
    LET hits == TableHits(city_input)
    IN  /\ \A i \in hits :
               (\A j \in hits : i <= j) =>
                   /\ sun_hours = SOLAR_DATA[i].hours
                   /\ loc_msg = [text |-> "Using historical data for",
                                 key  |-> SOLAR_DATA[i].key]
                   /\ geo_queries = <<>>
                   /\ geo_reply = NotCalled
        /\ hits = {} <=> geo_queries # <<>>
        /\ hits = {} => geo_queries = <<city_input \o <<",", " ", "N", "i", "g", "e", "r", "i", "a">> >>
        /\ city_input = IbadanLagos =>
               /\ sun_hours = Rat(44, 10)
               /\ loc_msg.key = <<"L","a","g","o","s">>

\* a lower-case name holding two table keys, the later key first in the name
C9_Witness ==
    /\ city_input = IbadanLagos
    /\ Cardinality(TableHits(city_input)) = 2
    /\ sun_hours = Rat(44, 10)
    /\ geo_queries = <<>>

\* C10: in every completed analysis the estimated generation
\* panels x 500 x sun x 0.75 is at least the total daily energy, so the
\* under-provisioning warning is not raised; the same holds for the total
\* under every resolvable sun-hours value.
C10_NeverUnderProvisioned ==
    Done =>
        /\ result.gen_wh =
               RMul(RInt(result.num_panels * 375), sun_hours)
        /\ RLe(result.total_daily_wh, result.gen_wh)
        /\ ~result.warning
        /\ \A s \in ResolvableSunHours : \A p2 \in NumPanels(result.total_daily_wh, s) :
               RLe(result.total_daily_wh, RMul(RInt(p2 * 375), s))

\* an analysis with load and panels whose generation covers the load
C10_Witness ==
    /\ Done
    /\ RLt(RInt(0), result.total_daily_wh)
    /\ result.num_panels >= 1
    /\ ~result.warning

====
